---------------------------- MODULE Spec2Model ----------------------------
(***************************************************************************)
(* BauhausWiki (src/main.rs): an in-memory wiki served over a minimal      *)
(* HTTP front end.  One thread per accepted connection; the article store  *)
(* is a HashMap<String, ArticleHistory> behind a single Mutex.             *)
(*                                                                         *)
(* Strings are modelled as sequences of one-character strings, so that     *)
(* routing, decoding and rendering are computed character by character as  *)
(* the code computes them.                                                 *)
(***************************************************************************)
EXTENDS Integers, Sequences, FiniteSets, TLC

(***************************************************************************)
(* Bounds of the model.                                                    *)
(***************************************************************************)
\* number of connections the listener hands to handler threads
NumConns == 2
\* timestamps are drawn from 0..MaxTime
MaxTime == 1
\* longest text handed to the pure text functions
MaxLen == 3
\* timestamps span the days 0..MaxDay of an era
MaxDay == 400

(***************************************************************************)
(* Characters and generic string helpers (Rust str / String methods).      *)
(***************************************************************************)
LowerLetters == <<"a", "b", "c", "d", "e", "f", "g", "h", "i", "j", "k", "l", "m", "n", "o", "p", "q", "r", "s", "t", "u", "v", "w", "x", "y", "z">>
UpperLetters == <<"A", "B", "C", "D", "E", "F", "G", "H", "I", "J", "K", "L", "M", "N", "O", "P", "Q", "R", "S", "T", "U", "V", "W", "X", "Y", "Z">>

\* the 1-based index of the first c in s at or after i, 0 if there is none
IndexIn(c, s, i) ==
    LET hits == {j \in i..Len(s) : s[j] = c}
    IN  IF hits = {} THEN 0
        ELSE CHOOSE j \in hits : \A k \in hits : j <= k

\* char::to_lowercase / str::to_lowercase
lower_char(c) ==
    LET i == IndexIn(c, UpperLetters, 1)
    IN  IF i = 0 THEN c ELSE LowerLetters[i]

to_lowercase(s) == [i \in 1..Len(s) |-> lower_char(s[i])]

\* char::to_uppercase
upper_char(c) ==
    LET i == IndexIn(c, LowerLetters, 1)
    IN  IF i = 0 THEN c ELSE UpperLetters[i]

\* char::is_whitespace, on the characters of the model
is_whitespace(c) == c \in {" ", "\t", "\n", "\r"}

\* the suffix s[i..] (1-based), empty when i is past the end
suffix(s, i) == SubSeq(s, i, Len(s))

\* the marker of a thread that panicked
Panicked == <<"panicked">>

\* &s[begin..]: the rest of s after its first begin characters; a begin past
\* the end of s panics
slice_from(s, begin) == IF begin > Len(s) THEN Panicked ELSE suffix(s, begin + 1)

\* str::starts_with
starts_with(s, p) == Len(s) >= Len(p) /\ SubSeq(s, 1, Len(p)) = p

\* str::find(pattern): the 1-based index of the first match at or after i, 0 for None
find_from(s, p, i) ==
    LET matches == {j \in i..(Len(s) + 1 - Len(p)) : SubSeq(s, j, j + Len(p) - 1) = p}
    IN  IF matches = {} THEN 0
        ELSE CHOOSE j \in matches : \A k \in matches : j <= k

find(s, p) == find_from(s, p, 1)

\* str::contains
contains(s, p) == find(s, p) # 0

\* str::replace(from, to) for a one-character pattern
RECURSIVE replace(_, _, _)
replace(s, from, to) ==
    LET i == IndexIn(from, s, 1)
    IN  IF i = 0 THEN s
        ELSE SubSeq(s, 1, i - 1) \o to \o replace(suffix(s, i + 1), from, to)

\* str::split(sep) for a one-character separator: always at least one piece
RECURSIVE split(_, _)
split(s, sep) ==
    LET i == IndexIn(sep, s, 1)
    IN  IF i = 0 THEN <<s>>
        ELSE <<SubSeq(s, 1, i - 1)>> \o split(suffix(s, i + 1), sep)

\* str::lines: pieces end at "\n", a "\r" before it is removed, and a final
\* empty piece is not a line
strip_cr(l) ==
    IF l # <<>> /\ l[Len(l)] = "\r" THEN SubSeq(l, 1, Len(l) - 1) ELSE l

lines(s) ==
    LET pieces == split(s, "\n")
        n == Len(pieces)
        kept == IF pieces[n] = <<>> THEN SubSeq(pieces, 1, n - 1) ELSE pieces
    IN  [i \in 1..Len(kept) |->
            IF i < n THEN strip_cr(kept[i]) ELSE kept[i]]

\* str::trim
RECURSIVE trim_start(_)
trim_start(s) ==
    IF s # <<>> /\ is_whitespace(Head(s)) THEN trim_start(Tail(s)) ELSE s

RECURSIVE trim_end(_)
trim_end(s) ==
    IF s # <<>> /\ is_whitespace(s[Len(s)])
    THEN trim_end(SubSeq(s, 1, Len(s) - 1)) ELSE s

trim(s) == trim_end(trim_start(s))

\* str::split_whitespace: the maximal runs of non-whitespace characters
RECURSIVE take_word(_)
take_word(s) ==
    IF s = <<>> \/ is_whitespace(Head(s)) THEN <<>>
    ELSE <<Head(s)>> \o take_word(Tail(s))

RECURSIVE split_whitespace(_)
split_whitespace(s) ==
    LET t == trim_start(s)
        w == take_word(t)
    IN  IF t = <<>> THEN <<>>
        ELSE <<w>> \o split_whitespace(suffix(t, Len(w) + 1))

\* [String]::join(sep)
RECURSIVE join(_, _)
join(ws, sep) ==
    IF ws = <<>> THEN <<>>
    ELSE IF Len(ws) = 1 THEN ws[1]
    ELSE ws[1] \o sep \o join(Tail(ws), sep)

(***************************************************************************)
(* Text Decoder and parameter extraction.                                  *)
(***************************************************************************)
HexDigits == <<"0", "1", "2", "3", "4", "5", "6", "7", "8", "9", "a", "b", "c", "d", "e", "f">>

\* char::to_digit(16): 0..15, or -1 for a character that is no hex digit
hex_value(c) ==
    LET i == IndexIn(lower_char(c), HexDigits, 1)
    IN  i - 1

\* u8::from_str_radix(hex, 16) on a two-character string: the value, or -1 for
\* Err.  A leading "+" is accepted as a sign, as Rust's integer parser does.
from_str_radix16(hex) ==
    IF hex[1] = "+"
    THEN hex_value(hex[2])
    ELSE IF hex_value(hex[1]) < 0 \/ hex_value(hex[2]) < 0 THEN -1
    ELSE 16 * hex_value(hex[1]) + hex_value(hex[2])

\* printable ASCII: code points 32..95 and 97..126 (96, the grave accent, is
\* written as an escape below)
PrintableLow == <<" ", "!", "\"", "#", "$", "%", "&", "'", "(", ")", "*", "+", ",", "-", ".", "/", "0", "1", "2", "3", "4", "5", "6", "7", "8", "9", ":", ";", "<", "=", ">", "?", "@", "A", "B", "C", "D", "E", "F", "G", "H", "I", "J", "K", "L", "M", "N", "O", "P", "Q", "R", "S", "T", "U", "V", "W", "X", "Y", "Z", "[", "\\", "]", "^", "_">>
PrintableHigh == <<"a", "b", "c", "d", "e", "f", "g", "h", "i", "j", "k", "l", "m", "n", "o", "p", "q", "r", "s", "t", "u", "v", "w", "x", "y", "z", "{", "|", "}", "~">>

\* "byte as char": the character whose code point is the byte
byte_as_char(b) ==
    IF b \in 32..95 THEN PrintableLow[b - 31]
    ELSE IF b \in 97..126 THEN PrintableHigh[b - 96]
    ELSE IF b = 10 THEN "\n"
    ELSE IF b = 13 THEN "\r"
    ELSE IF b = 9 THEN "\t"
    ELSE "\\x" \o ToString(b)

\* faulty variant of urldecode: a "%" with fewer than two characters after it
\* is dropped with what follows it
RECURSIVE urldecode_dropping(_)
urldecode_dropping(s) ==
    LET special == {i \in 1..Len(s) : s[i] \in {"+", "%"}}
    IN  IF special = {} THEN s
        ELSE LET n == CHOOSE i \in special : \A j \in special : i <= j
                 byte == IF Len(s) >= n + 2
                         THEN from_str_radix16(<<s[n + 1], s[n + 2]>>)
                         ELSE -1
             IN  SubSeq(s, 1, n - 1) \o
                 (IF s[n] = "+" THEN <<" ">> \o urldecode_dropping(suffix(s, n + 1))
                  ELSE (IF byte >= 0 THEN <<byte_as_char(byte)>> ELSE <<>>)
                       \o urldecode_dropping(suffix(s, n + 3)))

\* fn urldecode: the characters before the first "+" or "%" pass unchanged, a
\* "+" becomes a space, and a "%" takes the next two characters, "0" standing
\* for a missing one, and yields their byte when they parse as one
RECURSIVE urldecode(_)
urldecode(s) ==
    LET special == {i \in 1..Len(s) : s[i] \in {"+", "%"}}
    IN  IF special = {} THEN s
        ELSE LET n == CHOOSE i \in special : \A j \in special : i <= j
                 h1 == IF Len(s) >= n + 1 THEN s[n + 1] ELSE "0"
                 h2 == IF Len(s) >= n + 2 THEN s[n + 2] ELSE "0"
                 byte == from_str_radix16(<<h1, h2>>)
             IN  SubSeq(s, 1, n - 1) \o
                 (IF s[n] = "+" THEN <<" ">> \o urldecode(suffix(s, n + 1))
                  ELSE (IF byte >= 0 THEN <<byte_as_char(byte)>> ELSE <<>>)
                       \o urldecode(suffix(s, n + 3)))

\* the first pair "param=value" of a "&"-separated list, decoded; "" if none
RECURSIVE first_param(_, _)
first_param(pairs, param) ==
    IF pairs = <<>> THEN <<>>
    ELSE LET parts == split(Head(pairs), "=")
         IN  IF Len(parts) = 2 /\ parts[1] = param
             THEN urldecode(parts[2])
             ELSE first_param(Tail(pairs), param)

\* fn extract_query_param
extract_query_param(path, param) ==
    LET query_start == IndexIn("?", path, 1)
    IN  IF query_start # 0
        THEN first_param(split(suffix(path, query_start + 1), "&"), param)
        ELSE <<>>

\* fn extract_body
extract_body(request) ==
    LET pos == find(request, <<"\r", "\n", "\r", "\n">>)
    IN  IF pos # 0 THEN suffix(request, pos + 4) ELSE <<>>

\* fn extract_form_param
extract_form_param(body, param) == first_param(split(body, "&"), param)

(***************************************************************************)
(* Markup Renderer.                                                        *)
(***************************************************************************)
\* fn escape_html
escape_html(s) ==
    replace(replace(replace(replace(replace(s,
        "&", <<"&", "a", "m", "p", ";">>),
        "<", <<"&", "l", "t", ";">>),
        ">", <<"&", "g", "t", ";">>),
        "\"", <<"&", "q", "u", "o", "t", ";">>),
        "'", <<"&", "#", "3", "9", ";">>)

\* the position of the first "]" that is followed by "]", at or after i; 0 if none
find_close(s, i) ==
    LET hits == {j \in i..(Len(s) - 1) : s[j] = "]" /\ s[j + 1] = "]"}
    IN  IF hits = {} THEN 0 ELSE CHOOSE j \in hits : \A k \in hits : j <= k

\* the position of the first "[" that is followed by "[", at or after i; 0 if none
find_open(s, i) ==
    LET hits == {j \in i..(Len(s) - 1) : s[j] = "[" /\ s[j + 1] = "["}
    IN  IF hits = {} THEN 0 ELSE CHOOSE j \in hits : \A k \in hits : j <= k

\* the anchor that replaces [[link]]
wiki_link(link) ==
    LET link_url == replace(to_lowercase(link), " ", <<"_">>)
    IN  <<"<", "a", " ", "h", "r", "e", "f", "=", "\"", "/", "w", "i", "k", "i", "/">> \o link_url \o <<"\"", " ", "c", "l", "a", "s", "s", "=", "\"", "w", "i", "k", "i", "-", "l", "i", "n", "k", "\"", ">">>
        \o escape_html(link) \o <<"<", "/", "a", ">">>

\* fn process_links, from position i on: the characters before the next "[["
\* are copied, a closed link becomes its anchor and an unclosed one ends the text
RECURSIVE process_links_from(_, _)
process_links_from(text, i) ==
    LET o == find_open(text, i)
    IN  IF o = 0 THEN SubSeq(text, i, Len(text))
        ELSE LET j == find_close(text, o + 2)
             IN  SubSeq(text, i, o - 1)
                 \o (IF j = 0 THEN <<>>
                     ELSE wiki_link(SubSeq(text, o + 2, j - 1))
                          \o process_links_from(text, j + 2))

process_links(text) == process_links_from(text, 1)

\* what the heading branch of markdown_to_html inserts for the text after "# "
heading_text(t) == escape_html(t)

\* what the list branch of markdown_to_html inserts for the text after "- "
item_text(t) == process_links(t)

\* what the paragraph branch of markdown_to_html inserts for a line
paragraph_text(t) == process_links(t)

\* faulty variant of markdown_lines: a list line leaves an open paragraph open
RECURSIVE markdown_lines_list_in_paragraph(_, _, _)
markdown_lines_list_in_paragraph(ls, i, in_paragraph) ==
    IF i > Len(ls)
    THEN IF in_paragraph THEN <<"<", "/", "p", ">", "\n">> ELSE <<>>
    ELSE
      LET trimmed == trim(ls[i])
          close == IF in_paragraph THEN <<"<", "/", "p", ">", "\n">> ELSE <<>>
      IN  IF trimmed = <<>>
          THEN close \o markdown_lines_list_in_paragraph(ls, i + 1, FALSE)
          ELSE IF starts_with(trimmed, <<"#", " ">>)
          THEN close \o <<"<", "h", "2", ">">> \o heading_text(suffix(trimmed, 3)) \o <<"<", "/", "h", "2", ">", "\n">>
               \o markdown_lines_list_in_paragraph(ls, i + 1, FALSE)
          ELSE IF starts_with(trimmed, <<"-", " ">>)
          THEN <<"<", "u", "l", ">", "<", "l", "i", ">">> \o item_text(suffix(trimmed, 3)) \o <<"<", "/", "l", "i", ">", "<", "/", "u", "l", ">", "\n">>
               \o markdown_lines_list_in_paragraph(ls, i + 1, in_paragraph)
          ELSE (IF in_paragraph THEN <<" ">> ELSE <<"<", "p", ">">>)
               \o paragraph_text(trimmed)
               \o markdown_lines_list_in_paragraph(ls, i + 1, TRUE)

\* fn markdown_to_html: the loop over the lines ls from line i on, with the
\* paragraph flag; the result is the text appended to html
RECURSIVE markdown_lines(_, _, _)
markdown_lines(ls, i, in_paragraph) ==
    IF i > Len(ls)
    THEN IF in_paragraph THEN <<"<", "/", "p", ">", "\n">> ELSE <<>>
    ELSE
      LET trimmed == trim(ls[i])
          close == IF in_paragraph THEN <<"<", "/", "p", ">", "\n">> ELSE <<>>
      IN  IF trimmed = <<>>
          THEN close \o markdown_lines(ls, i + 1, FALSE)
          ELSE IF starts_with(trimmed, <<"#", " ">>)
          THEN close \o <<"<", "h", "2", ">">> \o heading_text(suffix(trimmed, 3)) \o <<"<", "/", "h", "2", ">", "\n">>
               \o markdown_lines(ls, i + 1, FALSE)
          ELSE IF starts_with(trimmed, <<"-", " ">>)
          THEN close \o <<"<", "u", "l", ">", "<", "l", "i", ">">> \o item_text(suffix(trimmed, 3)) \o <<"<", "/", "l", "i", ">", "<", "/", "u", "l", ">", "\n">>
               \o markdown_lines(ls, i + 1, FALSE)
          ELSE (IF in_paragraph THEN <<" ">> ELSE <<"<", "p", ">">>)
               \o paragraph_text(trimmed)
               \o markdown_lines(ls, i + 1, TRUE)

markdown_to_html(content) == markdown_lines(lines(content), 1, FALSE)

(***************************************************************************)
(* Title derivation and dates.                                             *)
(***************************************************************************)
\* the closure of save_article's map: the first character upper-cased
capitalize(w) ==
    IF w = <<>> THEN <<>> ELSE <<upper_char(Head(w))>> \o Tail(w)

\* the title save_article derives from the key
RECURSIVE capitalized(_)
capitalized(words) ==
    IF words = <<>> THEN <<>>
    ELSE <<capitalize(Head(words))>> \o capitalized(Tail(words))

derive_title(name) ==
    join(capitalized(split_whitespace(replace(name, "_", <<" ">>))), <<" ">>)

\* fn format_timestamp: year, month and day of the simplified calendar
format_timestamp(ts) ==
    LET days == ts \div 86400
        years == (days \div 365) + 1970
        remaining_days == days % 365
        month == (remaining_days \div 30) + 1
        day == (remaining_days % 30) + 1
    IN  <<years, month, day>>

(***************************************************************************)
(* Responses.  A response is a record of its status line, its headers and  *)
(* the fields its page template is filled with; the fixed markup of the    *)
(* templates is not modelled.                                              *)
(***************************************************************************)
NoResponse ==
    [status |-> 0, kind |-> "none", location |-> <<>>, name |-> <<>>,
     title |-> <<>>, body |-> <<>>, items |-> <<>>, results |-> <<>>]

\* fn http_response
http_response(code, message) ==
    [NoResponse EXCEPT !.status = code, !.kind = "plain", !.body = message]

\* fn redirect_response
redirect_response(location) ==
    [NoResponse EXCEPT !.status = 303, !.kind = "redirect", !.location = location]

\* fn html_response, for the page template named kind
html_response(kind, page) ==
    [page EXCEPT !.status = 200, !.kind = kind]

\* fn css_response
css_response == [NoResponse EXCEPT !.status = 200, !.kind = "css"]

(***************************************************************************)
(* The requests a connection may carry.                                    *)
(***************************************************************************)
request(method, path, body) ==
    method \o <<" ">> \o path \o <<" ", "H", "T", "T", "P", "/", "1", ".", "1", "\r", "\n", "H", "o", "s", "t", ":", " ", "w", "\r", "\n", "\r", "\n">> \o body

GET == <<"G", "E", "T">>
POST == <<"P", "O", "S", "T">>

Requests ==
    { request(GET, <<"/">>, <<>>),
      request(GET, <<"/", "w", "i", "k", "i", "/", "n", "e", "w", "_", "p", "a", "g", "e">>, <<>>),
      request(GET, <<"/", "e", "d", "i", "t", "/", "n", "e", "w", "_", "p", "a", "g", "e">>, <<>>),
      request(GET, <<"/", "h", "i", "s", "t", "o", "r", "y", "/", "n", "e", "w", "_", "p", "a", "g", "e">>, <<>>),
      request(GET, <<"/", "s", "e", "a", "r", "c", "h", "?", "q", "=", "B", "a", "u">>, <<>>),
      request(GET, <<"/", "s", "t", "y", "l", "e", "s", ".", "c", "s", "s">>, <<>>),
      request(GET, <<"/", "n", "o", "p", "e">>, <<>>),
      request(GET, <<"/", "s", "a", "v", "e", "/", "n", "e", "w", "_", "p", "a", "g", "e">>, <<>>),
      request(POST, <<"/", "s", "a", "v", "e", "/", "n", "e", "w", "_", "p", "a", "g", "e">>, <<"c", "o", "n", "t", "e", "n", "t", "=", "o", "n", "e">>),
      request(POST, <<"/", "s", "a", "v", "e", "/", "n", "e", "w", "_", "p", "a", "g", "e">>, <<"c", "o", "n", "t", "e", "n", "t", "=", "a", "%", "3", "C", "b">>),
      request(POST, <<"/", "s", "a", "v", "e", "/", "m", "a", "i", "n">>, <<"c", "o", "n", "t", "e", "n", "t", "=", "t", "w", "o">>),
      request(POST, <<"/", "s", "a", "v", "e", "/", "M", "a", "i", "n">>, <<"c", "o", "n", "t", "e", "n", "t", "=", "o", "n", "e">>),
      request(POST, <<"/", "w", "i", "k", "i", "/", "m", "a", "i", "n">>, <<"c", "o", "n", "t", "e", "n", "t", "=", "o", "n", "e">>),
      request(<<"P", "U", "T">>, <<"/", "w", "i", "k", "i", "/", "m", "a", "i", "n">>, <<"c", "o", "n", "t", "e", "n", "t", "=", "o", "n", "e">>),
      <<"G", "E", "T">>,
      <<>> }

(***************************************************************************)
(* Routing: fn process_request, fn handle_get, fn handle_post.  A route    *)
(* names the handler a request is dispatched to and its arguments, or      *)
(* carries the response of a request that needs no handler.                *)
(***************************************************************************)
Route(handler, name, content, response) ==
    [handler |-> handler, name |-> name, content |-> content, response |-> response]

Static(response) == Route("none", <<>>, <<>>, response)

\* faulty variant of handle_get: the article routes are recognised without
\* the slash that ends their prefix, and sliced as if it were there
RECURSIVE handle_get_short_prefix(_)
handle_get_short_prefix(path) ==
    IF path = <<"/">> THEN handle_get_short_prefix(<<"/", "w", "i", "k", "i", "/", "m", "a", "i", "n">>)
    ELSE IF starts_with(path, <<"/", "w", "i", "k", "i">>)
    THEN Route("view_article", slice_from(path, 6), <<>>, NoResponse)
    ELSE IF starts_with(path, <<"/", "e", "d", "i", "t">>)
    THEN Route("edit_page", slice_from(path, 6), <<>>, NoResponse)
    ELSE IF starts_with(path, <<"/", "h", "i", "s", "t", "o", "r", "y">>)
    THEN Route("history_page", slice_from(path, 9), <<>>, NoResponse)
    ELSE IF starts_with(path, <<"/", "s", "e", "a", "r", "c", "h">>)
    THEN Route("search_page", extract_query_param(path, <<"q">>), <<>>, NoResponse)
    ELSE IF path = <<"/", "s", "t", "y", "l", "e", "s", ".", "c", "s", "s">> THEN Static(css_response)
    ELSE Static(http_response(404, <<"N", "o", "t", " ", "F", "o", "u", "n", "d">>))

RECURSIVE handle_get(_)
handle_get(path) ==
    IF path = <<"/">> THEN handle_get(<<"/", "w", "i", "k", "i", "/", "m", "a", "i", "n">>)
    ELSE IF starts_with(path, <<"/", "w", "i", "k", "i", "/">>)
    THEN Route("view_article", slice_from(path, 6), <<>>, NoResponse)
    ELSE IF starts_with(path, <<"/", "e", "d", "i", "t", "/">>)
    THEN Route("edit_page", slice_from(path, 6), <<>>, NoResponse)
    ELSE IF starts_with(path, <<"/", "h", "i", "s", "t", "o", "r", "y", "/">>)
    THEN Route("history_page", slice_from(path, 9), <<>>, NoResponse)
    ELSE IF starts_with(path, <<"/", "s", "e", "a", "r", "c", "h">>)
    THEN Route("search_page", extract_query_param(path, <<"q">>), <<>>, NoResponse)
    ELSE IF path = <<"/", "s", "t", "y", "l", "e", "s", ".", "c", "s", "s">> THEN Static(css_response)
    ELSE Static(http_response(404, <<"N", "o", "t", " ", "F", "o", "u", "n", "d">>))

handle_post(path, request_text) ==
    IF starts_with(path, <<"/", "s", "a", "v", "e", "/">>)
    THEN Route("save_article", slice_from(path, 6),
               extract_form_param(extract_body(request_text), <<"c", "o", "n", "t", "e", "n", "t">>), NoResponse)
    ELSE Static(http_response(404, <<"N", "o", "t", " ", "F", "o", "u", "n", "d">>))

\* faulty variant of process_request: a request line with a method and no path
\* is taken to ask for the root
process_request_lenient(request_text) ==
    LET ls == lines(request_text)
        parts == IF ls = <<>> THEN <<>> ELSE split_whitespace(ls[1])
        path == IF Len(parts) < 2 THEN <<"/">> ELSE parts[2]
    IN  IF ls = <<>> THEN Static(http_response(400, <<"B", "a", "d", " ", "R", "e", "q", "u", "e", "s", "t">>))
        ELSE IF Len(parts) < 1 THEN Static(http_response(400, <<"B", "a", "d", " ", "R", "e", "q", "u", "e", "s", "t">>))
        ELSE IF parts[1] = GET THEN handle_get(path)
        ELSE IF parts[1] = POST THEN handle_post(path, request_text)
        ELSE Static(http_response(405, <<"M", "e", "t", "h", "o", "d", " ", "N", "o", "t", " ", "A", "l", "l", "o", "w", "e", "d">>))

process_request(request_text) ==
    LET ls == lines(request_text)
        parts == IF ls = <<>> THEN <<>> ELSE split_whitespace(ls[1])
    IN  IF ls = <<>> THEN Static(http_response(400, <<"B", "a", "d", " ", "R", "e", "q", "u", "e", "s", "t">>))
        ELSE IF Len(parts) < 2 THEN Static(http_response(400, <<"B", "a", "d", " ", "R", "e", "q", "u", "e", "s", "t">>))
        ELSE IF parts[1] = GET THEN handle_get(parts[2])
        ELSE IF parts[1] = POST THEN handle_post(parts[2], request_text)
        ELSE Static(http_response(405, <<"M", "e", "t", "h", "o", "d", " ", "N", "o", "t", " ", "A", "l", "l", "o", "w", "e", "d">>))

\* the requests of the routing check: every method on every route family,
\* on paths that end right after the route prefix or lack its last character,
\* with and without a body, and request texts without a request line
RouteMethods == {GET, POST, <<"P", "U", "T">>}

RoutePaths ==
    { <<"/">>, <<"/", "w", "i", "k", "i", "/">>, <<"/", "w", "i", "k", "i">>, <<"/", "w", "i", "k", "i", "/", "m", "a", "i", "n">>, <<"/", "w", "i", "k", "i", "/", "n", "e", "w", "_", "p", "a", "g", "e">>,
      <<"/", "e", "d", "i", "t", "/">>, <<"/", "e", "d", "i", "t">>, <<"/", "e", "d", "i", "t", "/", "m", "a", "i", "n">>,
      <<"/", "h", "i", "s", "t", "o", "r", "y", "/">>, <<"/", "h", "i", "s", "t", "o", "r", "y">>, <<"/", "h", "i", "s", "t", "o", "r", "y", "/", "m", "a", "i", "n">>, <<"/", "h", "i", "s", "t", "o", "r", "y", "/", "n", "e", "w", "_", "p", "a", "g", "e">>,
      <<"/", "s", "e", "a", "r", "c", "h">>, <<"/", "s", "e", "a", "r", "c", "h", "?", "q", "=">>, <<"/", "s", "e", "a", "r", "c", "h", "?", "q", "=", "b", "a", "u">>, <<"/", "s", "e", "a", "r", "c", "h", "?", "q", "=", "%">>, <<"/", "s", "e", "a", "r", "c", "h", "i", "n", "g">>,
      <<"/", "s", "a", "v", "e", "/">>, <<"/", "s", "a", "v", "e">>, <<"/", "s", "a", "v", "e", "/", "n", "e", "w", "_", "p", "a", "g", "e">>,
      <<"/", "s", "t", "y", "l", "e", "s", ".", "c", "s", "s">>, <<"/", "n", "o", "p", "e">> }

RouteBodies == { <<>>, <<"c", "o", "n", "t", "e", "n", "t", "=", "o", "n", "e">>, <<"x", "=", "%">> }

NoRequestLine ==
    { <<>>, <<"G", "E", "T">>, <<" ">>, <<"\r", "\n">>, <<"\n">>, <<" ", " ", "G", "E", "T", " ", " ">>, <<"\n", "G", "E", "T", " ", "/", " ", "H", "T", "T", "P", "/", "1", ".", "1">>,
      <<"G", "E", "T", "\r", "\n", "/", " ", "H", "T", "T", "P", "/", "1", ".", "1">>, <<"/", "w", "i", "k", "i", "/", "m", "a", "i", "n">> }

RouteRequests ==
    {request(m, p, b) : m \in RouteMethods, p \in RoutePaths, b \in RouteBodies}
        \cup NoRequestLine \cup Requests

\* a content longer than the preview of the history page
LongContent == <<"x", "x", "x", "x", "x", "x", "x", "x", "x", "x", "x", "x", "x", "x", "x", "x", "x", "x", "x", "x", "x", "x", "x", "x", "x", "x", "x", "x", "x", "x", "x", "x", "x", "x", "x", "x", "x", "x", "x", "x", "x", "x", "x", "x", "x", "x", "x", "x", "x", "x", "x", "x", "x", "x", "x", "x", "x", "x", "x", "x", "x", "x", "x", "x", "x", "x", "x", "x", "x", "x", "x", "x", "x", "x", "x", "x", "x", "x", "x", "x", "x", "x", "x", "x", "x", "x", "x", "x", "x", "x", "x", "x", "x", "x", "x", "x", "x", "x", "x", "x", "y">>

\* the requests of the page check: saves of a seeded and of a new key, the
\* searches that find them and the history of the seeded key
PageRequests ==
    { request(POST, <<"/", "s", "a", "v", "e", "/", "m", "a", "i", "n">>, <<"c", "o", "n", "t", "e", "n", "t", "=">> \o LongContent),
      request(POST, <<"/", "s", "a", "v", "e", "/", "n", "e", "w", "_", "p", "a", "g", "e">>, <<"c", "o", "n", "t", "e", "n", "t", "=", "o", "n", "e">>),
      request(GET, <<"/", "s", "e", "a", "r", "c", "h", "?", "q", "=", "B", "A", "U">>, <<>>),
      request(GET, <<"/", "s", "e", "a", "r", "c", "h", "?", "q", "=", "O", "n", "e">>, <<>>),
      request(GET, <<"/", "h", "i", "s", "t", "o", "r", "y", "/", "m", "a", "i", "n">>, <<>>) }

\* the requests of the transport check
TransportRequests ==
    { request(POST, <<"/", "s", "a", "v", "e", "/", "n", "e", "w", "_", "p", "a", "g", "e">>, <<"c", "o", "n", "t", "e", "n", "t", "=", "o", "n", "e">>),
      request(POST, <<"/", "s", "a", "v", "e", "/", "m", "a", "i", "n">>, <<"c", "o", "n", "t", "e", "n", "t", "=", "t", "w", "o">>),
      request(GET, <<"/", "w", "i", "k", "i", "/", "n", "e", "w", "_", "p", "a", "g", "e">>, <<>>),
      request(GET, <<"/", "n", "o", "p", "e">>, <<>>) }

(***************************************************************************)
(* The HashMap's hasher.  HashMap::new draws a RandomState, which fixes    *)
(* the order of iteration over any set of keys; it is modelled as a        *)
(* ranking of the keys the requests of the model can name.                 *)
(***************************************************************************)
KeyUniverse == { <<"m", "a", "i", "n">>, <<"b", "a", "u", "h", "a", "u", "s">>, <<"n", "e", "w", "_", "p", "a", "g", "e">>, <<"M", "a", "i", "n">>, <<>> }

\* one ranking of a set of keys
RECURSIVE Ordering(_)
Ordering(S) ==
    IF S = {} THEN <<>>
    ELSE LET k == CHOOSE x \in S : TRUE
         IN  <<k>> \o Ordering(S \ {k})

Reverse(s) == [i \in 1..Len(s) |-> s[Len(s) + 1 - i]]

DefaultHasher == Ordering(KeyUniverse)

Hashers == {DefaultHasher, Reverse(DefaultHasher)}
(***************************************************************************)
(* State.                                                                  *)
(***************************************************************************)
VARIABLES
    store,      \* the HashMap behind the Mutex: key -> versions (oldest first)
    lock,       \* the Mutex: 0 when free, else the connection holding the guard
    pc,         \* where each connection's thread is
    req,        \* the request text each connection read
    route,      \* the handler each request was dispatched to, with its arguments
    article,    \* save_article's local: the Article it is about to push
    resp,       \* the response each connection's handler returned
    requested,  \* history variable: key -> how many save requests read, per content
    appended,   \* history variable: key -> the contents pushed, in the order pushed
    hasher,     \* the HashMap's RandomState, as the order it gives to the keys
    pin,        \* text functions: the input
    pout,       \* text functions: the output
    pfn         \* text functions: the function applied

vars == <<store, lock, pc, req, route, article, resp, requested, appended, hasher,
          pin, pout, pfn>>
server_vars == <<store, lock, pc, req, route, article, resp, requested, appended, hasher>>
text_vars == <<pin, pout, pfn>>

Conns == 1..NumConns
\* fn timestamp: seconds, counted in the model from the second the process starts
Times == 0..MaxTime

NoArticle == [title |-> <<>>, content |-> <<>>, timestamp |-> 0]
NoRoute == Static(NoResponse)

\* struct Article
Article(title, content, ts) == [title |-> title, content |-> content, timestamp |-> ts]

\* the two seed entries main() inserts (their contents abridged)
SeedMain(ts) == Article(<<"M", "a", "i", "n", " ", "P", "a", "g", "e">>, <<"W", "e", "l", "c", "o", "m", "e", "\n", "\n", "-", " ", "[", "[", "B", "a", "u", "h", "a", "u", "s", "]", "]">>, ts)
SeedBauhaus(ts) == Article(<<"B", "a", "u", "h", "a", "u", "s">>, <<"T", "h", "e", " ", "B", "a", "u", "h", "a", "u", "s", "\n", "\n", "[", "[", "D", "e", "s", "i", "g", "n", "]", "]">>, ts)

\* HashMap::iter: the keys of data in the order the hasher gives them, which
\* stays the same for as long as the map is not changed
iter(data) == SelectSeq(hasher, LAMBDA k : k \in DOMAIN data)

\* HashMap::get: whether the key is present
present(name) == name \in DOMAIN store

\* faulty variant of last: the first version is taken for the current one
first_version(versions) == versions[1]

\* Vec::last of a key's versions
last(versions) == versions[Len(versions)]

\* process_request of each request of the model: the pairs <<request, route>>
RoutePairs == {<<r, process_request(r)>> : r \in Requests}

\* the same for the requests of the routing check, of the page check and of
\* the transport check
RouteCheckPairs == {<<r, process_request(r)>> : r \in RouteRequests}
PagePairs == {<<r, process_request(r)>> : r \in PageRequests}
TransportPairs == {<<r, process_request(r)>> : r \in TransportRequests}

\* every content an article can hold: that of a seed or of a save request
Contents ==
    {SeedMain(0).content, SeedBauhaus(0).content}
        \cup {p[2].content : p \in {q \in RoutePairs \cup RouteCheckPairs \cup PagePairs
                                            \cup TransportPairs :
                                       q[2].handler = "save_article"}}

\* derive_title of each key and markdown_to_html of each content, computed once
TitlePairs == {<<k, derive_title(k)>> : k \in KeyUniverse}
HtmlPairs == {<<t, markdown_to_html(t)>> : t \in Contents}

title_of(name) == (CHOOSE p \in TitlePairs : p[1] = name)[2]
html_of(content) == (CHOOSE p \in HtmlPairs : p[1] = content)[2]

\* the state after main has seeded the store
ServerStart ==
    /\ store = [k \in {<<"m", "a", "i", "n">>, <<"b", "a", "u", "h", "a", "u", "s">>} |->
                  IF k = <<"m", "a", "i", "n">> THEN <<SeedMain(0)>> ELSE <<SeedBauhaus(0)>>]
    /\ lock = 0
    /\ pc = [c \in Conns |-> "new"]
    /\ req = [c \in Conns |-> <<>>]
    /\ route = [c \in Conns |-> NoRoute]
    /\ article = [c \in Conns |-> NoArticle]
    /\ resp = [c \in Conns |-> NoResponse]
    /\ requested = <<>>
    /\ appended = <<>>

ServerInit == ServerStart /\ hasher = DefaultHasher

TextIdle == pin = <<>> /\ pout = <<>> /\ pfn = "none"

Init == ServerInit /\ TextIdle

(***************************************************************************)
(* Connection Server: fn main's accept loop and fn handle_client.          *)
(***************************************************************************)
\* listener.incoming() yields a stream and main spawns its handler thread
Accept(c) ==
    /\ pc[c] = "new"
    /\ \A d \in Conns : d < c => pc[d] # "new"
    /\ pc' = [pc EXCEPT ![c] = "reading"]
    /\ UNCHANGED <<store, lock, req, route, article, resp, requested, appended, hasher, text_vars>>

\* a history variable h with one more occurrence of content counted for name
Count(h, name, content) ==
    LET old == IF name \in DOMAIN h THEN h[name] ELSE <<>>
        new == [x \in DOMAIN old \cup {content} |->
                   (IF x \in DOMAIN old THEN old[x] ELSE 0) + (IF x = content THEN 1 ELSE 0)]
    IN  [k \in DOMAIN h \cup {name} |-> IF k = name THEN new ELSE h[k]]

\* a history variable h with content added at the end of its entry for name
Record(h, name, content) ==
    [k \in DOMAIN h \cup {name} |->
        IF k = name
        THEN (IF k \in DOMAIN h THEN h[k] ELSE <<>>) \o <<content>>
        ELSE h[k]]


\* stream.read succeeds; process_request parses the request and either answers
\* it at once or reaches the call of a handler that works on the store; a panic
\* while routing ends the thread with no response
Read(c, pairs) ==
    /\ pc[c] = "reading"
    /\ \E p \in pairs :
          LET r == p[1]
              rt == p[2]
          IN  /\ req' = [req EXCEPT ![c] = r]
              /\ route' = [route EXCEPT ![c] = rt]
              /\ IF rt.name = Panicked
                 THEN /\ resp' = resp
                      /\ pc' = [pc EXCEPT ![c] = "panicked"]
                 ELSE IF rt.handler = "none"
                 THEN /\ resp' = [resp EXCEPT ![c] = rt.response]
                      /\ pc' = [pc EXCEPT ![c] = "write"]
                 ELSE /\ resp' = resp
                      /\ pc' = [pc EXCEPT ![c] = "call"]
              /\ requested' = IF rt.handler = "save_article" /\ rt.name # Panicked
                              THEN Count(requested, rt.name, rt.content)
                              ELSE requested
    /\ UNCHANGED <<store, lock, article, appended, hasher, text_vars>>

ReadRequest(c) == Read(c, RoutePairs)

\* stream.read fails: the error is logged and the thread ends
ReadErrorAs(c, ended) ==
    /\ pc[c] = "reading"
    /\ pc' = [pc EXCEPT ![c] = ended]
    /\ UNCHANGED <<store, lock, req, route, article, resp, requested, appended, hasher, text_vars>>

ReadError(c) == ReadErrorAs(c, "closed")

\* the end of handle_client: the stream and the thread's locals are dropped
CloseAs(c, ended) ==
    /\ pc' = [pc EXCEPT ![c] = ended]
    /\ req' = [req EXCEPT ![c] = <<>>]
    /\ route' = [route EXCEPT ![c] = NoRoute]
    /\ resp' = [resp EXCEPT ![c] = NoResponse]
    /\ UNCHANGED <<store, lock, article, requested, appended, hasher, text_vars>>

Close(c) == CloseAs(c, "closed")

\* stream.write_all and flush deliver the response, and the thread ends
WriteResponse(c) ==
    /\ pc[c] = "write"
    /\ Close(c)

\* stream.write_all or flush fails: the result is ignored, and the thread ends
\* faulty variant of WriteErrorAs: a save whose redirect cannot be delivered is
\* undone, the version it pushed being taken off its key again
WriteErrorUndoing(c, ended) ==
    /\ pc[c] = "write"
    /\ pc' = [pc EXCEPT ![c] = ended]
    /\ req' = [req EXCEPT ![c] = <<>>]
    /\ route' = [route EXCEPT ![c] = NoRoute]
    /\ resp' = [resp EXCEPT ![c] = NoResponse]
    /\ store' = IF route[c].handler = "save_article"
                THEN [store EXCEPT ![route[c].name] = SubSeq(@, 1, Len(@) - 1)]
                ELSE store
    /\ UNCHANGED <<lock, article, requested, appended, hasher, text_vars>>

WriteErrorAs(c, ended) ==
    /\ pc[c] = "write"
    /\ CloseAs(c, ended)

WriteError(c) == WriteErrorAs(c, "closed")

(***************************************************************************)
(* The Mutex.                                                              *)
(***************************************************************************)
Readers == {"view_article", "edit_page", "history_page", "search_page"}

\* wiki_data.lock().unwrap() at the top of a reading handler
ReaderLock(c) ==
    /\ pc[c] = "call"
    /\ route[c].handler \in Readers
    /\ lock = 0
    /\ lock' = c
    /\ pc' = [pc EXCEPT ![c] = "locked"]
    /\ UNCHANGED <<store, req, route, article, resp, requested, appended, hasher, text_vars>>

\* faulty variant of ReaderReturn: the guard is leaked (mem::forget), so the
\* handler returns with the Mutex still locked
ReaderReturnLeaking(c) ==
    /\ pc[c] = "rendered"
    /\ lock = c
    /\ pc' = [pc EXCEPT ![c] = "write"]
    /\ UNCHANGED <<store, lock, req, route, article, resp, requested, appended, hasher, text_vars>>

\* a reading handler returns its page: the MutexGuard is dropped
ReaderReturn(c) ==
    /\ pc[c] = "rendered"
    /\ lock = c
    /\ lock' = 0
    /\ pc' = [pc EXCEPT ![c] = "write"]
    /\ UNCHANGED <<store, req, route, article, resp, requested, appended, hasher, text_vars>>

(***************************************************************************)
(* Article Store: fn save_article.                                         *)
(***************************************************************************)
\* lock, then the title and the Article are built
SaveLock(c) ==
    /\ pc[c] = "call"
    /\ route[c].handler = "save_article"
    /\ lock = 0
    /\ lock' = c
    /\ \E ts \in Times :
          article' = [article EXCEPT
                         ![c] = Article(title_of(route[c].name), route[c].content, ts)]
    /\ pc' = [pc EXCEPT ![c] = "locked"]
    /\ UNCHANGED <<store, req, route, resp, requested, appended, hasher, text_vars>>

\* faulty variant of or_insert_empty: data.insert(name, <empty history>), which
\* replaces the history of a key that is already present
or_insert_reset(name) ==
    [k \in DOMAIN store \cup {name} |-> IF k = name THEN <<>> ELSE store[k]]

\* data.entry(name).or_insert_with(|| ArticleHistory { versions: Vec::new() })
or_insert_empty(name) ==
    [k \in DOMAIN store \cup {name} |-> IF k \in DOMAIN store THEN store[k] ELSE <<>>]

\* faulty variant of SaveEntry: the guard is dropped once the entry exists, and
\* the push is done without it
SaveEntry_unlocked(c) ==
    /\ pc[c] = "locked"
    /\ route[c].handler = "save_article"
    /\ store' = or_insert_empty(route[c].name)
    /\ lock' = 0
    /\ pc' = [pc EXCEPT ![c] = "entry"]
    /\ UNCHANGED <<req, route, article, resp, requested, appended, hasher, text_vars>>

SaveEntry(c) ==
    /\ pc[c] = "locked"
    /\ route[c].handler = "save_article"
    /\ store' = or_insert_empty(route[c].name)
    /\ pc' = [pc EXCEPT ![c] = "entry"]
    /\ UNCHANGED <<lock, req, route, article, resp, requested, appended, hasher, text_vars>>

\* faulty variant of push: versions.insert(0, article)
push_front(name, a) == [store EXCEPT ![name] = <<a>> \o @]

\* faulty variant of push: the key is folded to lower case before the lookup
push_normalized(name, a) == [store EXCEPT ![to_lowercase(name)] = Append(@, a)]

\* .versions.push(article)
push(name, a) == [store EXCEPT ![name] = Append(@, a)]

SavePush(c) ==
    /\ pc[c] = "entry"
    /\ store' = push(route[c].name, article[c])
    /\ appended' = Record(appended, route[c].name, route[c].content)
    /\ pc' = [pc EXCEPT ![c] = "pushed"]
    /\ UNCHANGED <<lock, req, route, article, resp, requested, hasher, text_vars>>

\* save_article returns: the MutexGuard and the locals are dropped; back in
\* handle_post, redirect_response(&format!("/wiki/{}", article_name))
SaveReturn(c) ==
    /\ pc[c] = "pushed"
    /\ lock = c
    /\ lock' = 0
    /\ article' = [article EXCEPT ![c] = NoArticle]
    /\ resp' = [resp EXCEPT ![c] = redirect_response(<<"/", "w", "i", "k", "i", "/">> \o route[c].name)]
    /\ pc' = [pc EXCEPT ![c] = "write"]
    /\ UNCHANGED <<store, req, route, requested, appended, hasher, text_vars>>

(***************************************************************************)
(* The reading handlers.  Each runs with the guard held: the lookup, the   *)
(* rendering and the page are all computed before the handler returns.     *)
(***************************************************************************)
\* fn view_article
view_page(name) ==
    IF present(name)
    THEN LET a == last(store[name])
         IN  html_response("article",
                 [NoResponse EXCEPT !.title = a.title, !.name = name,
                                    !.body = html_of(a.content)])
    ELSE html_response("not_found", [NoResponse EXCEPT !.name = name])

\* fn edit_page
edit_form(name) ==
    LET content == IF present(name) THEN last(store[name]).content ELSE <<>>
    IN  html_response("edit", [NoResponse EXCEPT !.name = name, !.body = escape_html(content)])

\* chars().take(100)
take(s, n) == SubSeq(s, 1, IF Len(s) < n THEN Len(s) ELSE n)

\* faulty variant of history_items: the versions are listed without .rev()
history_items_oldest_first(versions) ==
    [j \in 1..Len(versions) |->
        [number |-> j,
         date |-> format_timestamp(versions[j].timestamp),
         preview |-> escape_html(take(versions[j].content, 100))]]

\* fn history_page: the items newest first
history_items(versions) ==
    [j \in 1..Len(versions) |->
        LET i == Len(versions) + 1 - j
        IN  [number |-> i,
             date |-> format_timestamp(versions[i].timestamp),
             preview |-> escape_html(take(versions[i].content, 100))]]

\* faulty variant of history_list: a key that is not found is answered 404
history_list_404(name) ==
    IF present(name)
    THEN html_response("history",
             [NoResponse EXCEPT !.name = name, !.items = history_items(store[name])])
    ELSE http_response(404, <<"N", "o", "t", " ", "F", "o", "u", "n", "d">>)

history_list(name) ==
    IF present(name)
    THEN html_response("history",
             [NoResponse EXCEPT !.name = name, !.items = history_items(store[name])])
    ELSE redirect_response(<<"/", "w", "i", "k", "i", "/">> \o name)

\* results.push((name.clone(), article.title.clone())) for each key found
RECURSIVE titled(_)
titled(found) ==
    IF found = <<>> THEN <<>>
    ELSE << <<Head(found), last(store[Head(found)]).title>> >> \o titled(Tail(found))

\* faulty variant of search_results: every version of a key is searched
search_results_any_version(query) ==
    LET query_lower == to_lowercase(query)
        matches(k) ==
            \E i \in 1..Len(store[k]) :
                \/ contains(to_lowercase(store[k][i].title), query_lower)
                \/ contains(to_lowercase(store[k][i].content), query_lower)
    IN  titled(SelectSeq(iter(store), matches))

\* fn search_page: the (key, title) pairs of the matching current versions
search_results(query) ==
    LET query_lower == to_lowercase(query)
        matches(k) ==
            \/ contains(to_lowercase(last(store[k]).title), query_lower)
            \/ contains(to_lowercase(last(store[k]).content), query_lower)
    IN  titled(SelectSeq(iter(store), matches))

search_list(query) ==
    html_response("search",
        [NoResponse EXCEPT !.name = query, !.body = escape_html(query),
                           !.results = search_results(query)])

\* the body of a reading handler, run between lock and return
Render(c, handler, page) ==
    /\ pc[c] = "locked"
    /\ route[c].handler = handler
    /\ resp' = [resp EXCEPT ![c] = page]
    /\ pc' = [pc EXCEPT ![c] = "rendered"]
    /\ UNCHANGED <<store, lock, req, route, article, requested, appended, hasher, text_vars>>

\* faulty variant of view_article: the lookup is data.entry(name).or_insert_with,
\* which creates the key it does not find
view_article_creating(c) ==
    /\ pc[c] = "locked"
    /\ route[c].handler = "view_article"
    /\ store' = or_insert_empty(route[c].name)
    /\ resp' = [resp EXCEPT ![c] = view_page(route[c].name)]
    /\ pc' = [pc EXCEPT ![c] = "rendered"]
    /\ UNCHANGED <<lock, req, route, article, requested, appended, hasher, text_vars>>

view_article(c) == Render(c, "view_article", view_page(route[c].name))

edit_page(c) == Render(c, "edit_page", edit_form(route[c].name))

history_page(c) == Render(c, "history_page", history_list(route[c].name))

search_page(c) == Render(c, "search_page", search_list(route[c].name))

(***************************************************************************)
(* The server.                                                             *)
(***************************************************************************)
Next ==
    \E c \in Conns :
        \/ Accept(c)
        \/ ReadRequest(c)
        \/ ReadError(c)
        \/ ReaderLock(c)
        \/ view_article(c)
        \/ edit_page(c)
        \/ history_page(c)
        \/ search_page(c)
        \/ ReaderReturn(c)
        \/ SaveLock(c)
        \/ SaveEntry(c)
        \/ SavePush(c)
        \/ SaveReturn(c)
        \/ WriteResponse(c)
        \/ WriteError(c)

Spec == Init /\ [][Next]_vars

\* the steps of the handler thread of connection c between the call of its
\* handler and the handler's return
HandlerStep(c) ==
    \/ ReaderLock(c)
    \/ view_article(c)
    \/ edit_page(c)
    \/ history_page(c)
    \/ search_page(c)
    \/ ReaderReturn(c)
    \/ SaveLock(c)
    \/ SaveEntry(c)
    \/ SavePush(c)
    \/ SaveReturn(c)

\* fair scheduling: a thread spawned for a connection is not left forever
\* with a step it could take; nothing is assumed of the clients, which may
\* stop connecting or sending at any point
Fairness == \A c \in Conns : WF_vars(HandlerStep(c))

SpecLive == Spec /\ Fairness

(***************************************************************************)
(* The text functions on their own: a text is drawn at the start and one   *)
(* of the functions is applied to it; the server stays idle.               *)
(***************************************************************************)
TextAlphabet == {"a", "<", "&", "\"", "[", "]", "#", "-", " ", "\n"}

RECURSIVE TextsUpTo(_)
TextsUpTo(n) ==
    IF n = 0 THEN {<<>>}
    ELSE LET shorter == TextsUpTo(n - 1)
         IN  shorter \cup {Append(t, ch) : t \in shorter, ch \in TextAlphabet}

\* the texts the spec's examples name
EscapeExample == <<"A", "&", "B", "<", "C", ">", "\"", "D", "'", "E">>
MarkupExample == <<"#", " ", "T", "i", "t", "l", "e", "\n", "\n", "p", "l", "a", "i", "n", " ", "l", "i", "n", "e", "\n", "-", " ", "i", "t", "e", "m", "\n", "[", "[", "B", "a", "u", "h", "a", "u", "s", "]", "]">>

DecodeExample == <<"a", "+", "b", "%", "2", "0", "c", "%", "2">>
LinkExample == <<"s", "e", "e", " ", "[", "[", "A", "r", "t", " ", "S", "c", "h", "o", "o", "l", "]", "]", " ", "n", "o", "w">>
ListExample == <<"o", "n", "e", "\n", "t", "w", "o", "\n", "-", " ", "x", "\n", "-", " ", "y", "\n", "#", " ", "h", "\n", "e", "n", "d">>

\* the texts of the decoder: a hex digit that is a letter, two that are not, a
\* letter that is no hex digit, and the two characters the decoder acts on
UrlAlphabet == {"a", "2", "0", "z", "%", "+"}

RECURSIVE UrlTextsUpTo(_)
UrlTextsUpTo(n) ==
    IF n = 0 THEN {<<>>}
    ELSE LET shorter == UrlTextsUpTo(n - 1)
         IN  shorter \cup {Append(t, ch) : t \in shorter, ch \in UrlAlphabet}

Texts ==
    TextsUpTo(MaxLen) \cup UrlTextsUpTo(MaxLen)
        \cup {EscapeExample, MarkupExample, DecodeExample, LinkExample, ListExample}

TextInit ==
    /\ ServerInit
    /\ pin \in Texts
    /\ pout = <<>>
    /\ pfn = "none"

Apply(fn, out) ==
    /\ pfn = "none"
    /\ pfn' = fn
    /\ pout' = out
    /\ UNCHANGED <<pin, server_vars>>

RenderMarkdown == Apply("markdown_to_html", markdown_to_html(pin))

RenderHeading == Apply("heading", heading_text(pin))

RenderItem == Apply("item", item_text(pin))

RenderParagraph == Apply("paragraph", paragraph_text(pin))

EscapeHtml == Apply("escape_html", escape_html(pin))

DecodeUrl == Apply("urldecode", urldecode(pin))

TextNext ==
    \/ RenderMarkdown
    \/ RenderHeading
    \/ RenderItem
    \/ RenderParagraph
    \/ EscapeHtml
    \/ DecodeUrl

SpecText == TextInit /\ [][TextNext]_vars


(***************************************************************************)
(* Routing on its own: one connection carries any request of the routing   *)
(* check and is served to the end.                                         *)
(***************************************************************************)
ReadRoute(c) == Read(c, RouteCheckPairs)

RouteNext ==
    \/ Accept(1)
    \/ ReadRoute(1)
    \/ ReaderLock(1)
    \/ view_article(1)
    \/ edit_page(1)
    \/ history_page(1)
    \/ search_page(1)
    \/ ReaderReturn(1)
    \/ SaveLock(1)
    \/ SaveEntry(1)
    \/ SavePush(1)
    \/ SaveReturn(1)
    \/ WriteResponse(1)

SpecRoute == Init /\ [][RouteNext]_vars

(***************************************************************************)
(* The pages that list: saves, searches and histories, under either of     *)
(* two hashers.                                                            *)
(***************************************************************************)
ReadPage(c) == Read(c, PagePairs)

\* every request of the page check is dispatched to a handler
PagesInit ==
    /\ \A p \in PagePairs : p[2].handler \in Readers \cup {"save_article"}
    /\ ServerStart
    /\ hasher \in Hashers
    /\ TextIdle

PagesNext ==
    \E c \in Conns :
        \/ Accept(c)
        \/ ReadPage(c)
        \/ ReaderLock(c)
        \/ history_page(c)
        \/ search_page(c)
        \/ ReaderReturn(c)
        \/ SaveLock(c)
        \/ SaveEntry(c)
        \/ SavePush(c)
        \/ SaveReturn(c)
        \/ WriteResponse(c)

SpecPages == PagesInit /\ [][PagesNext]_vars

(***************************************************************************)
(* Transport failures: the server with the failures of accept, read and    *)
(* write, where a thread that ended on a failure is told from one that     *)
(* ended after its response was delivered.                                 *)
(***************************************************************************)
ReadTransport(c) == Read(c, TransportPairs)

\* listener.incoming() yields an Err: it is logged and the loop goes on
AcceptError == UNCHANGED vars

ReadFailure(c) == ReadErrorAs(c, "read_failed")

WriteFailure(c) == WriteErrorAs(c, "write_failed")

TransportNext ==
    \/ AcceptError
    \/ \E c \in Conns :
        \/ Accept(c)
        \/ ReadTransport(c)
        \/ ReadFailure(c)
        \/ ReaderLock(c)
        \/ view_article(c)
        \/ ReaderReturn(c)
        \/ SaveLock(c)
        \/ SaveEntry(c)
        \/ SavePush(c)
        \/ SaveReturn(c)
        \/ WriteResponse(c)
        \/ WriteFailure(c)

SpecTransport == Init /\ [][TransportNext]_vars

(***************************************************************************)
(* The date of a version on its own: a timestamp is drawn at the start and *)
(* format_timestamp is applied to it; the server stays idle.  Here pin is  *)
(* the timestamp, a number of seconds, and pout the date.                  *)
(***************************************************************************)
\* the first day of an era: the epoch, and 54 years of 365 days after it
Eras == {0, 19710}

\* SystemTime::now() as seconds since the epoch: the first and the last second
\* of each day of each era
Timestamps ==
    {86400 * (era + d) + s : era \in Eras, d \in 0..MaxDay, s \in {0, 86399}}

DateInit ==
    /\ ServerInit
    /\ pin \in Timestamps
    /\ pout = <<>>
    /\ pfn = "none"

FormatTimestamp == Apply("format_timestamp", format_timestamp(pin))

DateNext == FormatTimestamp

SpecDate == DateInit /\ [][DateNext]_vars
(***************************************************************************)
(* Properties.                                                             *)
(***************************************************************************)
Seeds == {<<"m", "a", "i", "n">>, <<"b", "a", "u", "h", "a", "u", "s">>}
NewPage == <<"n", "e", "w", "_", "p", "a", "g", "e">>

\* the history of a key in a store: empty for a key the store does not hold
HistoryOf(s, k) == IF k \in DOMAIN s THEN s[k] ELSE <<>>

IsPrefix(a, b) == Len(a) <= Len(b) /\ SubSeq(b, 1, Len(a)) = a

\* connection c takes the step of save_article that pushes its version
Pushes(c) == pc[c] = "entry" /\ pc'[c] = "pushed"

\* the contents of a history, in order
ContentsOf(versions) == [i \in 1..Len(versions) |-> versions[i].content]

\* the final element of a non-empty sequence
Newest(s) == s[Len(s)]

\* how often x occurs in the sequence s
Occurrences(s, x) == Cardinality({i \in 1..Len(s) : s[i] = x})

\* C1: a save lengthens the history of its key by exactly one, the new version
\* is the last one and carries the saved content, and every earlier version
\* stays at its index unchanged; in every step the history of every key is an
\* extension of what it was (keys never vanish, histories never shrink or
\* reorder).
C1_SaveAppendsOne ==
    [][ /\ \A k \in DOMAIN store :
             /\ k \in DOMAIN store'
             /\ IsPrefix(store[k], store'[k])
        /\ \A k \in DOMAIN store' :
             Len(store'[k]) <= Len(HistoryOf(store, k)) + 1
        /\ \A c \in Conns :
             Pushes(c) =>
                LET k == route[c].name
                    old == HistoryOf(store, k)
                IN  /\ Len(store'[k]) = Len(old) + 1
                    /\ SubSeq(store'[k], 1, Len(old)) = old
                    /\ Newest(store'[k]).content = route[c].content
                    /\ Newest(store'[k]).title = derive_title(k)
      ]_vars

\* C1 witness: two saves to the same key have both been pushed, the second
\* after the first, with different contents
C1_Witness ==
    /\ NewPage \in DOMAIN store
    /\ Len(store[NewPage]) = 2
    /\ store[NewPage][1].content # store[NewPage][2].content

\* C2: for a fresh key, in every state and under every interleaving of the
\* connection threads, the contents in the key's history are exactly the
\* contents of the save requests read for it minus those of the saves that have
\* not yet pushed (each as often as requested): no update is lost, the history
\* is never longer than the number of pushes performed, and once every
\* connection has finished the history holds each requested content exactly
\* as often as it was requested.
NotYetPushed(k, x) ==
    Cardinality({c \in Conns : /\ route[c].handler = "save_article"
                               /\ route[c].name = k
                               /\ route[c].content = x
                               /\ pc[c] \in {"call", "locked", "entry"}})

C2_NoLostUpdate ==
    \A k \in (DOMAIN requested \cup DOMAIN store) \ Seeds :
        LET h == ContentsOf(HistoryOf(store, k))
            asked == HistoryOf(requested, k)
        IN  /\ \A x \in DOMAIN asked :
                 Occurrences(h, x) = asked[x] - NotYetPushed(k, x)
            /\ \A i \in 1..Len(h) : h[i] \in DOMAIN asked

\* C2 witness: two connections saved different contents to the same fresh key,
\* both have finished, and its history holds both
C2_Witness ==
    /\ \A c \in Conns : pc[c] = "closed"
    /\ NewPage \in DOMAIN store
    /\ Len(store[NewPage]) = NumConns
    /\ \E i, j \in 1..Len(store[NewPage]) :
          store[NewPage][i].content # store[NewPage][j].content

\* C3: a key with an empty history exists only while the save that created it
\* holds the lock, between its entry and its push; so whenever the lock is free,
\* and whenever a reading handler holds it, every key has at least one version.
C3_NonEmptyHistories ==
    \A k \in DOMAIN store :
        store[k] = <<>> =>
            /\ lock # 0
            /\ route[lock].handler = "save_article"
            /\ route[lock].name = k
            /\ pc[lock] = "entry"

\* C3 witness: a save has created a new key and released the lock
C3_Witness ==
    /\ lock = 0
    /\ \E k \in DOMAIN store : k \notin Seeds

\* C4: a POST /save/{key} is answered 303 with Location /wiki/{key} after its
\* version has been pushed; and a view of a key that has been saved gives the
\* article page (not the not-found page) with the rendered content of the
\* last save pushed to the key, an edit form the same content.
C4_ServesLatestSave ==
    \A c \in Conns :
        LET k == route[c].name
        IN  /\ (pc[c] = "write" /\ route[c].handler = "save_article") =>
                 /\ resp[c] = redirect_response(<<"/", "w", "i", "k", "i", "/">> \o k)
                 /\ resp[c].status = 303
                 /\ k \in DOMAIN appended
            /\ (pc[c] = "rendered" /\ k \in DOMAIN appended) =>
                 /\ route[c].handler = "view_article" =>
                      /\ resp[c].status = 200
                      /\ resp[c].kind = "article"
                      /\ resp[c].body = markdown_to_html(Newest(appended[k]))
                 /\ route[c].handler = "edit_page" =>
                      /\ resp[c].kind = "edit"
                      /\ resp[c].body = escape_html(Newest(appended[k]))

\* C4 witness: a key has been saved twice with different contents, and a view
\* of it is rendered
C4_Witness ==
    \E c \in Conns :
        /\ pc[c] = "rendered"
        /\ route[c].handler = "view_article"
        /\ route[c].name \in DOMAIN appended
        /\ Len(store[route[c].name]) >= 2

\* C5: no handler holds the store lock once it has rendered its response: in
\* no state does a connection that has built its page, or is ready to write
\* it, still hold the lock.
C5_NoRenderUnderLock ==
    \A c \in Conns : resp[c] # NoResponse => lock # c

\* C6: only the steps of a POST /save/{key} change the store: a step that
\* changes the set of keys or a history is the entry or the push of a
\* connection dispatched to save_article, and it changes only that key; no
\* view, edit, history, search, stylesheet or error response changes anything.
C6_OnlySaveWrites ==
    [][ store' # store =>
          \E c \in Conns :
              /\ route[c].handler = "save_article"
              /\ lock = c
              /\ pc[c] \in {"locked", "entry"}
              /\ pc'[c] \in {"entry", "pushed"}
              /\ \A k \in DOMAIN store \cup DOMAIN store' :
                    k # route[c].name => HistoryOf(store', k) = HistoryOf(store, k)
      ]_vars

\* C6 witness: the view of a key the store does not hold has been answered, and
\* the key is still not in the store
C6_Witness ==
    \E c \in Conns :
        /\ pc[c] = "write"
        /\ route[c].handler = "view_article"
        /\ resp[c].kind = "not_found"
        /\ route[c].name \notin DOMAIN store

\* C7: for a key the store does not hold, the view is the not-found page, the
\* history is a 303 redirect to /wiki/{key} and the edit form is empty; none of
\* them is an error response.
C7_AbsentKeyPages ==
    \A c \in Conns :
        (pc[c] = "rendered" /\ route[c].name \notin DOMAIN store) =>
            LET k == route[c].name
            IN  /\ route[c].handler = "view_article" =>
                     /\ resp[c].status = 200
                     /\ resp[c].kind = "not_found"
                     /\ resp[c].name = k
                /\ route[c].handler = "history_page" =>
                     /\ resp[c].status = 303
                     /\ resp[c].kind = "redirect"
                     /\ resp[c].location = <<"/", "w", "i", "k", "i", "/">> \o k
                /\ route[c].handler = "edit_page" =>
                     /\ resp[c].status = 200
                     /\ resp[c].kind = "edit"
                     /\ resp[c].body = <<>>

\* C7 witness: the history of a key the store does not hold has been asked for
\* and answered
C7_Witness ==
    \E c \in Conns :
        /\ pc[c] = "rendered"
        /\ route[c].handler = "history_page"
        /\ route[c].name \notin DOMAIN store

\* C8: all versions of a key carry the same title, in every state reachable
\* from the seeded store.
C8_OneTitlePerKey ==
    \A k \in DOMAIN store :
        \A i, j \in 1..Len(store[k]) : store[k][i].title = store[k][j].title

\* the characters that must not reach the output raw
Specials == {"<", ">", "\"", "'"}

Entities == {<<"&", "a", "m", "p", ";">>, <<"&", "l", "t", ";">>, <<"&", "g", "t", ";">>, <<"&", "q", "u", "o", "t", ";">>, <<"&", "#", "3", "9", ";">>}

AnchorOpen == <<"<", "a", " ", "h", "r", "e", "f", "=", "\"", "/", "w", "i", "k", "i", "/">>
AnchorClass == <<"\"", " ", "c", "l", "a", "s", "s", "=", "\"", "w", "i", "k", "i", "-", "l", "i", "n", "k", "\"", ">">>
AnchorClose == <<"<", "/", "a", ">">>

\* a rendered text without the anchor tags the renderer generates: from each
\* <a href="/wiki/ up to the end of its class attribute, and each </a>
RECURSIVE strip_anchors(_)
strip_anchors(s) ==
    IF s = <<>> THEN <<>>
    ELSE IF starts_with(s, AnchorOpen) /\ find(s, AnchorClass) # 0
    THEN strip_anchors(suffix(s, find(s, AnchorClass) + Len(AnchorClass)))
    ELSE IF starts_with(s, AnchorClose)
    THEN strip_anchors(suffix(s, Len(AnchorClose) + 1))
    ELSE <<Head(s)>> \o strip_anchors(Tail(s))

\* no special character is left raw in s: none of < > " ' occurs, and every &
\* starts an entity
EscapedText(s) ==
    \A i \in 1..Len(s) :
        /\ s[i] \notin Specials
        /\ s[i] = "&" => \E e \in Entities : starts_with(suffix(s, i), e)

\* C9: whatever the line kind (heading, list item, paragraph), the text of a
\* line reaches the output HTML-escaped: apart from the tags the renderer
\* generates no < > " or ' is left raw and every & starts an entity; rendering
\* the text A&B<C>"D'E gives a paragraph holding A&amp;B&lt;C&gt;&quot;D&#39;E.
C9_TextIsEscaped ==
    /\ pfn \in {"heading", "item", "paragraph"} => EscapedText(strip_anchors(pout))
    /\ (pfn = "markdown_to_html" /\ pin = EscapeExample) =>
          pout = <<"<", "p", ">", "A", "&", "a", "m", "p", ";", "B", "&", "l", "t", ";", "C", "&", "g", "t", ";", "&", "q", "u", "o", "t", ";", "D", "&", "#", "3", "9", ";", "E", "<", "/", "p", ">", "\n">>

\* the method and the path of a request line with at least two tokens
RequestLine(r) == IF lines(r) = <<>> THEN <<>> ELSE split_whitespace(lines(r)[1])

\* the route families and the method each supports
GetFamilies == {<<"/", "w", "i", "k", "i", "/">>, <<"/", "e", "d", "i", "t", "/">>, <<"/", "h", "i", "s", "t", "o", "r", "y", "/">>, <<"/", "s", "e", "a", "r", "c", "h">>}

SupportedMethod(path) ==
    IF \E f \in GetFamilies : starts_with(path, f) THEN GET
    ELSE IF path = <<"/">> \/ path = <<"/", "s", "t", "y", "l", "e", "s", ".", "c", "s", "s">> THEN GET
    ELSE IF starts_with(path, <<"/", "s", "a", "v", "e", "/">>) THEN POST
    ELSE <<>>

\* C10: a request to a path of a known route family with a method the family
\* does not support is answered 405, and 404 is the answer only for paths that
\* belong to no route family.
C10_WrongMethodIs405 ==
    \A c \in Conns :
        (pc[c] = "write" /\ Len(RequestLine(req[c])) >= 2) =>
            LET method == RequestLine(req[c])[1]
                path == RequestLine(req[c])[2]
            IN  /\ (SupportedMethod(path) # <<>> /\ method # SupportedMethod(path))
                      => resp[c].status = 405
                /\ resp[c].status = 404 => SupportedMethod(path) = <<>>


(***************************************************************************)
(* Claims about routing, checked on SpecRoute.                             *)
(***************************************************************************)
Statuses == {200, 303, 400, 404, 405}

\* the positions of a thread between reading its request and its response
InHandler == {"call", "locked", "entry", "pushed"}

\* C11: every request that is read, well-formed or not, gets exactly one
\* response, with status 200, 303, 400, 404 or 405; no request content (any
\* method, any path, a path that ends right after its route prefix, any body)
\* makes the handler abort: no thread panics, a thread in a handler is in one
\* of the five handlers and has no response yet, and the response a thread has
\* carries one of the five statuses.
C11_EveryRequestAnswered ==
    \A c \in Conns :
        /\ pc[c] # "panicked"
        /\ pc[c] \in InHandler => resp[c] = NoResponse
        /\ pc[c] \in InHandler \cup {"rendered"} =>
              route[c].handler \in Readers \cup {"save_article"}
        /\ pc[c] \in {"rendered", "write"} => resp[c].status \in Statuses

C11_Witness ==
    /\ pc[1] = "write"
    /\ req[1] = request(POST, <<"/", "s", "a", "v", "e", "/">>, <<"x", "=", "%">>)
    /\ resp[1].status = 303

\* the store main() builds
SeededStore == [k \in Seeds |-> IF k = <<"m", "a", "i", "n">> THEN <<SeedMain(0)>> ELSE <<SeedBauhaus(0)>>]

\* C12: a request that is empty, or whose first line has fewer than two
\* whitespace-separated tokens, is answered 400 Bad Request whatever the rest of
\* it holds, and is never dispatched to a handler: the store is neither read
\* nor changed for it.
C12_BadRequestLine ==
    \A c \in Conns :
        (pc[c] \notin {"new", "reading", "closed"} /\ Len(RequestLine(req[c])) < 2) =>
            /\ pc[c] = "write"
            /\ resp[c] = http_response(400, <<"B", "a", "d", " ", "R", "e", "q", "u", "e", "s", "t">>)
            /\ route[c].handler = "none"
            /\ lock # c
            /\ store = SeededStore

C12_Witness ==
    /\ pc[1] = "write"
    /\ req[1] = <<"G", "E", "T", "\r", "\n", "/", " ", "H", "T", "T", "P", "/", "1", ".", "1">>
    /\ resp[1].status = 400

(***************************************************************************)
(* Claims about transport failures, checked on SpecTransport.              *)
(***************************************************************************)
\* a step leaves every connection but c as it was
OthersUntouched(c) ==
    \A d \in Conns \ {c} :
        /\ pc'[d] = pc[d]
        /\ req'[d] = req[d]
        /\ route'[d] = route[d]
        /\ article'[d] = article[d]
        /\ resp'[d] = resp[d]

\* the contents the seeds put under a key
SeedContents(k) == IF k \in Seeds THEN ContentsOf(SeededStore[k]) ELSE <<>>

\* C13: a failure of one connection is confined to it.  A connection whose
\* read fails performs no store operation and has no response to send; a
\* failed write changes nothing in the store and in no other connection; a
\* failed accept changes nothing at all, so that the connections that follow
\* are accepted and served as before; and the store holds exactly what the
\* seeds and the pushes of the saves put in it.
C13_FailureIsConfined ==
    [][ \A c \in Conns :
          /\ (pc[c] = "reading" /\ pc'[c] = "read_failed") =>
                /\ store' = store /\ lock' = lock /\ appended' = appended
                /\ resp' = resp /\ resp[c] = NoResponse
                /\ route'[c] = NoRoute
                /\ OthersUntouched(c)
          /\ (pc[c] = "write" /\ pc'[c] = "write_failed") =>
                /\ store' = store /\ lock' = lock /\ appended' = appended
                /\ OthersUntouched(c)
          /\ pc'[c] \in {"read_failed", "write_failed"} =>
                /\ lock' # c
                /\ resp'[c] = NoResponse
          /\ pc[c] = "reading" => pc'[c] \in {"reading", "read_failed", "write", "call"}
          /\ \A k \in DOMAIN store' :
                ContentsOf(store'[k]) = SeedContents(k) \o HistoryOf(appended', k)
      ]_vars

\* C13 witness: the first connection's read failed, the second connection's
\* write failed after its save, and the store holds that save
C13_Witness ==
    /\ pc[1] = "read_failed"
    /\ pc[2] = "write_failed"
    /\ NewPage \in DOMAIN store
    /\ ContentsOf(store[NewPage]) = <<<<"o", "n", "e">>>>

(***************************************************************************)
(* Claims about the text functions, checked on SpecText.                   *)
(***************************************************************************)
Hex == <<"0", "1", "2", "3", "4", "5", "6", "7", "8", "9", "a", "b", "c", "d", "e", "f">>
HexUpper == <<"0", "1", "2", "3", "4", "5", "6", "7", "8", "9", "A", "B", "C", "D", "E", "F">>

\* the value of a hexadecimal digit, or -1
DigitValue(ch) ==
    IF \E i \in 1..16 : Hex[i] = ch \/ HexUpper[i] = ch
    THEN (CHOOSE i \in 1..16 : Hex[i] = ch \/ HexUpper[i] = ch) - 1
    ELSE -1

\* what the pair of characters taken after a "%" adds to the output: the byte
\* of two hexadecimal digits, the byte of one digit after a sign "+", else
\* nothing
PairOutput(x, y) ==
    IF x = "+" /\ DigitValue(y) >= 0 THEN <<byte_as_char(DigitValue(y))>>
    ELSE IF DigitValue(x) >= 0 /\ DigitValue(y) >= 0
    THEN <<byte_as_char(16 * DigitValue(x) + DigitValue(y))>>
    ELSE <<>>

\* the decoding that pads a truncated escape with the digit 0
RECURSIVE PaddedDecode(_, _)
PaddedDecode(s, i) ==
    IF i > Len(s) THEN <<>>
    ELSE IF s[i] = "+" THEN <<" ">> \o PaddedDecode(s, i + 1)
    ELSE IF s[i] = "%"
    THEN PairOutput(IF i + 1 <= Len(s) THEN s[i + 1] ELSE "0",
                    IF i + 2 <= Len(s) THEN s[i + 2] ELSE "0")
         \o PaddedDecode(s, i + 3)
    ELSE <<s[i]>> \o PaddedDecode(s, i + 1)

\* C14 (as amended): urldecode turns "+" into a space and passes every
\* character other than "+" and "%" unchanged; at a "%" it takes the next two
\* characters, the digit 0 standing for each one that is missing, and adds the
\* byte they spell if they are two hexadecimal digits (or a "+" and one digit),
\* and nothing otherwise.  A truncated escape is therefore decoded, not
\* dropped: urldecode("a+b%20c%2") is "a b c " with a space at its end.
C14_DecodePadsTruncated ==
    pfn = "urldecode" =>
        /\ pout = PaddedDecode(pin, 1)
        /\ pin = DecodeExample => pout = <<"a", " ", "b", " ", "c", " ">>

C14_Witness == pfn = "urldecode" /\ pin = DecodeExample /\ pout = <<"a", " ", "b", " ", "c", " ">>

\* "+" turned into a space in a text without "%"
PlusDecoded(s) == [i \in 1..Len(s) |-> IF s[i] = "+" THEN " " ELSE s[i]]

\* C14 (as claimed): a "%" followed by fewer than two characters contributes no
\* character to the result, and urldecode("a+b%20c%2") equals "a b c".
C14_DropsTruncated ==
    pfn = "urldecode" =>
        /\ pin = DecodeExample => pout = <<"a", " ", "b", " ", "c">>
        /\ \A n \in 1..Len(pin) :
              (/\ pin[n] = "%"
               /\ n >= Len(pin) - 1
               /\ \A i \in 1..(n - 1) : pin[i] # "%")
                  => pout = PlusDecoded(SubSeq(pin, 1, n - 1))

\* C15: a terminated [[Name]] token is replaced by a link to /wiki/ followed by
\* Name lowercased with its spaces turned into underscores, with the visible
\* text Name, wherever it occurs: in the text of a heading line, of a list-item
\* line and of a paragraph line alike.
C15_LinksEverywhere ==
    (pfn \in {"heading", "item", "paragraph"} /\ pin = LinkExample) =>
        pout = <<"s", "e", "e", " ", "<", "a", " ", "h", "r", "e", "f", "=", "\"", "/", "w", "i", "k", "i", "/", "a", "r", "t", "_", "s", "c", "h", "o", "o", "l", "\"", " ", "c", "l", "a", "s", "s", "=", "\"", "w", "i", "k", "i", "-", "l", "i", "n", "k", "\"", ">", "A", "r", "t", " ", "S", "c", "h", "o", "o", "l", "<", "/", "a", ">", " ", "n", "o", "w">>

\* the places of a rendered text where the tag t starts
TagsAt(out, t) == {i \in 1..Len(out) : starts_with(suffix(out, i), t)}

\* whether a paragraph is open just before place i of a rendered text: -1 if
\* more were closed than opened, 0 if none is open, 1 if one is, and so on
OpenBefore(out, i) ==
    Cardinality({j \in TagsAt(out, <<"<", "p", ">">>) : j < i})
        - Cardinality({j \in TagsAt(out, <<"<", "/", "p", ">">>) : j < i})

\* the kind of an input line
LineKind(line) ==
    IF trim(line) = <<>> THEN "blank"
    ELSE IF starts_with(trim(line), <<"#", " ">>) THEN "heading"
    ELSE IF starts_with(trim(line), <<"-", " ">>) THEN "list"
    ELSE "plain"

\* the number of paragraphs the lines ask for: a plain line starts one when
\* the line before it is not plain
Paragraphs(ls) ==
    Cardinality({i \in 1..Len(ls) :
        /\ LineKind(ls[i]) = "plain"
        /\ i = 1 \/ LineKind(ls[i - 1]) # "plain"})

Alphabet == <<"a", "b", "c", "d", "e", "f", "g", "h", "i", "j", "k", "l", "m", "n", "o", "p", "q", "r", "s", "t", "u", "v", "w", "x", "y", "z">>
Capitals == <<"A", "B", "C", "D", "E", "F", "G", "H", "I", "J", "K", "L", "M", "N", "O", "P", "Q", "R", "S", "T", "U", "V", "W", "X", "Y", "Z">>

\* a character with its case folded
Folded(ch) ==
    IF \E i \in 1..26 : Capitals[i] = ch
    THEN Alphabet[CHOOSE i \in 1..26 : Capitals[i] = ch]
    ELSE ch

\* text holds q somewhere, the case of letters disregarded
HoldsNoCase(text, q) ==
    \E i \in 1..(Len(text) + 1 - Len(q)) :
        \A j \in 1..Len(q) : Folded(text[i + j - 1]) = Folded(q[j])

\* the place the hasher gives to a key
Rank(k) == CHOOSE i \in 1..Len(hasher) : hasher[i] = k

\* connection c holds the result of a search
Searched(c) == pc[c] \in {"rendered", "write"} /\ route[c].handler = "search_page"

\* C17: a search returns exactly the keys whose current (last) version has a
\* title or a content that contains the query, case disregarded, each with its
\* current title; a text found only in an older version does not match; and the
\* order of the results is fixed by the store's keys and its hasher, so that two
\* searches for the same query on an unchanged store return the same keys in
\* the same order.
C17_SearchCurrentVersions ==
    /\ \A c \in Conns :
          (pc[c] = "rendered" /\ route[c].handler = "search_page") =>
              LET r == resp[c].results
                  q == route[c].name
              IN  /\ {r[i][1] : i \in 1..Len(r)} =
                        {k \in DOMAIN store :
                            \/ HoldsNoCase(Newest(store[k]).title, q)
                            \/ HoldsNoCase(Newest(store[k]).content, q)}
                  /\ \A i \in 1..Len(r) : r[i][2] = Newest(store[r[i][1]]).title
                  /\ \A i, j \in 1..Len(r) : i < j => Rank(r[i][1]) < Rank(r[j][1])
    /\ \A c, d \in Conns :
          (/\ Searched(c) /\ Searched(d)
           /\ route[c].name = route[d].name
           /\ {x[1] : x \in {resp[c].results[i] : i \in 1..Len(resp[c].results)}} =
              {x[1] : x \in {resp[d].results[i] : i \in 1..Len(resp[d].results)}})
              => \A i \in 1..Len(resp[c].results) :
                    resp[c].results[i][1] = resp[d].results[i][1]

\* C17 witness: the seeded main page, whose first version names the Bauhaus,
\* has a second version that does not, and a search for BAU finds the one
\* key bauhaus
C17_Witness ==
    \E c \in Conns :
        /\ pc[c] = "rendered"
        /\ route[c].name = <<"B", "A", "U">>
        /\ Len(store[<<"m", "a", "i", "n">>]) = 2
        /\ resp[c].results = << <<<<"b", "a", "u", "h", "a", "u", "s">>, <<"B", "a", "u", "h", "a", "u", "s">>>> >>

\* the number of characters of a version the history page shows
PreviewLen == 100

\* C18: the history page of a key with n versions lists exactly n entries,
\* newest first, numbered n, n-1, ..., 1, and the entry numbered i shows the
\* date and the preview (the first 100 characters) of the i-th oldest version.
C18_HistoryNewestFirst ==
    \A c \in Conns :
        (/\ pc[c] = "rendered"
         /\ route[c].handler = "history_page"
         /\ route[c].name \in DOMAIN store) =>
            LET h == store[route[c].name]
                n == Len(h)
                items == resp[c].items
            IN  /\ resp[c].status = 200
                /\ Len(items) = n
                /\ \A j \in 1..n :
                      /\ items[j].number = n + 1 - j
                      /\ items[j].date = format_timestamp(h[n + 1 - j].timestamp)
                      /\ items[j].preview =
                            escape_html([x \in 1..(IF Len(h[n + 1 - j].content) < PreviewLen
                                                   THEN Len(h[n + 1 - j].content)
                                                   ELSE PreviewLen) |->
                                            h[n + 1 - j].content[x]])

\* C18 witness: the history of the seeded main page after a save of a content
\* of 101 characters: two entries, the newest first with a preview of 100
C18_Witness ==
    \E c \in Conns :
        /\ pc[c] = "rendered"
        /\ route[c].handler = "history_page"
        /\ Len(resp[c].items) = 2
        /\ resp[c].items[1].number = 2
        /\ Len(resp[c].items[1].preview) = PreviewLen
        /\ Len(store[<<"m", "a", "i", "n">>][2].content) = PreviewLen + 1
        /\ resp[c].items[2].number = 1
        /\ resp[c].items[2].preview = store[<<"m", "a", "i", "n">>][1].content

(***************************************************************************)
(* Claims about the lock, checked on SpecLive.                             *)
(***************************************************************************)
\* the positions at which a thread holds the MutexGuard
Holding == {"locked", "entry", "pushed", "rendered"}

\* C19: no handler waits for another except through the store lock: each
\* request acquires the lock at most once, only when it is free and never
\* while holding it (GET / included, which is rerouted to the main page before
\* any locking), and releases it when its handler returns; so under fair
\* scheduling nothing deadlocks and every request that was read and
\* dispatched to a handler gets its response.
C19_LockOnceAndProgress ==
    /\ [](\A c \in Conns : lock = c <=> pc[c] \in Holding)
    /\ [][ \A c \in Conns :
             /\ (lock' = c /\ lock # c) =>
                   /\ lock = 0
                   /\ pc[c] = "call" /\ pc'[c] = "locked"
             /\ (lock = c /\ lock' # c) => (lock' = 0 /\ pc'[c] = "write")
             /\ pc[c] \in Holding \cup {"write", "closed"} => pc'[c] # "call"
         ]_vars
    /\ \A c \in Conns : (pc[c] = "call") ~> (pc[c] = "write")

\* C19 witness: the request GET / holds the lock with its page rendered while
\* another request waits for the lock
C19_Witness ==
    \E c, d \in Conns :
        /\ req[c] = request(GET, <<"/">>, <<>>)
        /\ pc[c] = "rendered"
        /\ lock = c
        /\ pc[d] = "call"

\* a step of save_article by connection c that writes the store: the entry
\* lookup or the push
SaveWrites(c) ==
    /\ route[c].handler = "save_article"
    /\ \/ pc[c] = "locked" /\ pc'[c] = "entry"
       \/ pc[c] = "entry" /\ pc'[c] = "pushed"

\* C20: save(k, c) changes only the history of k, where k is the text that
\* follows /save/ in the request path, character for character: any other key,
\* one that differs from k only in letter case included, keeps its history;
\* the keys grow by k at most; and the push appends the new article to the
\* history k had.
C20_SaveTouchesOnlyItsKey ==
    [][ \A c \in Conns :
          SaveWrites(c) =>
             LET k == route[c].name
             IN  /\ starts_with(req[c], <<"P", "O", "S", "T", " ", "/", "s", "a", "v", "e", "/">> \o k \o <<" ", "H", "T", "T", "P">>)
                 /\ DOMAIN store' = DOMAIN store \cup {k}
                 /\ \A other \in DOMAIN store' \ {k} :
                       other \in DOMAIN store /\ store'[other] = store[other]
                 /\ pc[c] = "locked" =>
                       store'[k] = IF k \in DOMAIN store THEN store[k] ELSE <<>>
                 /\ pc[c] = "entry" => store'[k] = Append(store[k], article[c])
      ]_vars

\* C20 witness: a save to the key Main has pushed its article while the key
\* main holds exactly its seed
C20_Witness ==
    \E c \in Conns :
        /\ pc[c] = "pushed"
        /\ route[c].name = <<"M", "a", "i", "n">>
        /\ Len(store[<<"M", "a", "i", "n">>]) = 1
        /\ <<"m", "a", "i", "n">> \in DOMAIN store
        /\ store[<<"m", "a", "i", "n">>] = <<SeedMain(0)>>

\* C21: for every timestamp, the date format_timestamp produces has a month
\* between 1 and 12 and a day between 1 and 30.
C21_DateInRange ==
    pfn = "format_timestamp" =>
        /\ pout[2] \in 1..12
        /\ pout[3] \in 1..30

=============================================================================
